---- MODULE Spec2Model ----
(***************************************************************************)
(* Model of the EventBridge sink of kube-eventer                           *)
(* (sinks/eventbridge/driver.go): the batch exporter, the client cache     *)
(* and the credential freshness check.                                     *)
(*                                                                         *)
(* Time is counted in minutes.  An event is identified by its Name, which  *)
(* is its 1-based position in the batch; an envelope (CloudEvent) carries  *)
(* the Name of the event it was translated from as its data.  A string is  *)
(* a sequence of characters.                                               *)
(***************************************************************************)
EXTENDS Integers, Sequences, FiniteSets, TLC

\* ------------------------------------------------------------------ bounds
MaxBatchLen == 17   \* longest batch handed to ExportEvents
MaxNow == 10        \* the clock stops advancing at this minute
MaxCalls == 2       \* export calls made on one sink
TickMinutes == 10   \* minutes the clock advances in one step
MaxVersionLen == 2   \* longest APIVersion drawn from the alphabet

\* --------------------------------------------------------------- constants
eventbridgeMaxBatchSize == 16
TenMinutes == 10

\* an Expiration string: a timestamp in the layout isAkValid parses, standing
\* for the minute t, or a string that is no such timestamp
Timestamp(t) == [wellFormed |-> TRUE, t |-> t]
Unparsable == [wellFormed |-> FALSE, t |-> 0]
\* the nil *utils.AKInfo and the nil *eventbridge.Client
NilAk == [AccessKeyId |-> 0, Expiration |-> Unparsable]
NilClient == [id |-> 0, ak |-> NilAk]
Caller == {1, 2}
\* remaining lifetimes (minutes) of the credentials the provider hands out
Lifetimes == {5, 20}

VARIABLES
    client,     \* ebSink.client: NilClient or the cached client
    akInfo,     \* ebSink.akInfo: NilAk or the cached credential
    now,        \* time.Now(), in minutes
    callers,    \* the goroutines that call ExportEvents on this sink
    pc,         \* per caller: its position in ExportEvents
    batch,      \* per caller: batch.Events of the call in progress
    i,          \* per caller: the chunk loop index of exportEventsInBatch
    events,     \* per caller: the chunk built for the current iteration
    ebClient,   \* per caller: the client getClient returned to putEvents
    newAk,      \* per caller: newClient's local akInfo
    newCl,      \* per caller: newClient's local client
    putCalls,   \* per caller: the putEvents calls of the call in progress
    fetches,    \* number of utils.ParseAKInfo calls so far
    built,      \* number of clients eventbridge.NewClient has built so far
    calls,      \* number of ExportEvents calls started so far
    env,        \* what NewEventBridgeSink finds: the uri options, the resolvers
    sink        \* what NewEventBridgeSink returned, once it has run

vars == <<client, akInfo, now, callers, pc, batch, i, events, ebClient,
          newAk, newCl, putCalls, fetches, built, calls, env, sink>>

\* ------------------------------------------------------------ pure helpers
\* a chunk count that rounds down instead of up
BatchSizeOfFloor(n) == n \div eventbridgeMaxBatchSize

\* int(math.Ceil(float64(n) / eventbridgeMaxBatchSize)): the division by 16
\* is exact in float64, so the result is the integer ceiling
BatchSizeOf(n) ==
    IF n % eventbridgeMaxBatchSize = 0
    THEN n \div eventbridgeMaxBatchSize
    ELSE n \div eventbridgeMaxBatchSize + 1

\* strings.Contains(s, ch) for a substring ch of one character
Contains(s, ch) == \E k \in 1..Len(s) : s[k] = ch

\* the literal "/versionUnknown"
VersionUnknown == <<"/", "v", "e", "r", "s", "i", "o", "n",
                    "U", "n", "k", "n", "o", "w", "n">>

\* the subject Sprintf formats, by its API-version segment; the other
\* segments (region, account, cluster, namespace, resource, name) are copied
\* through from the sink and the object reference and are left out
Subject(versionNameHack) == [version |-> versionNameHack]

\* a subject that sniffs for the "." only
createEventSubjectDotOnly(o) ==
    Subject(IF Contains(o.APIVersion, ".")
            THEN o.APIVersion \o VersionUnknown
            ELSE o.APIVersion)

\* createEventSubject, lines 202-213
createEventSubject(o) ==
    Subject(IF Contains(o.APIVersion, ".") /\ ~Contains(o.APIVersion, "/")
            THEN o.APIVersion \o VersionUnknown
            ELSE o.APIVersion)

\* the envelope of a translation that failed (a nil *CloudEvent)
NilCloudEvent == [data |-> 0, subject |-> [version |-> <<>>]]

\* toCloudEvent, lines 85-113: json.Marshal(event) fails exactly on the
\* events that cannot be serialised
toCloudEvent(event) ==
    LET subject == createEventSubject(
                       [APIVersion |-> event.APIVersion, Name |-> event.Name])
    IN  IF event.marshalable
        THEN [err |-> FALSE, ce |-> [data |-> event.Name, subject |-> subject]]
        ELSE [err |-> TRUE, ce |-> NilCloudEvent]

\* an inner loop that gives up the chunk at the first translation failure
RECURSIVE TranslateFromBreak(_, _, _, _)
TranslateFromBreak(evs, j, hi, acc) ==
    IF ~(j < hi /\ j < Len(evs)) THEN acc
    ELSE IF toCloudEvent(evs[j + 1]).err
         THEN Append(acc, [Name |-> evs[j + 1].Name, r |-> toCloudEvent(evs[j + 1])])
         ELSE TranslateFromBreak(evs, j + 1, hi,
                  Append(acc, [Name |-> evs[j + 1].Name, r |-> toCloudEvent(evs[j + 1])]))

\* the inner loop of exportEventsInBatch, j counting 0-based as in the code:
\* the events visited, each with what toCloudEvent returned for it
RECURSIVE TranslateFrom(_, _, _, _)
TranslateFrom(evs, j, hi, acc) ==
    IF ~(j < hi /\ j < Len(evs)) THEN acc
    ELSE TranslateFrom(evs, j + 1, hi,
             Append(acc, [Name |-> evs[j + 1].Name, r |-> toCloudEvent(evs[j + 1])]))

\* the slice `events` after the inner loop: an event whose translation failed
\* is skipped (continue), the others are appended in order; seen lists the
\* Names of the events the loop visited
Collected(visited) ==
    LET kept == SelectSeq(visited, LAMBDA v : ~v.r.err) IN
    [out |-> [x \in 1..Len(kept) |-> kept[x].r.ce],
     seen |-> [x \in 1..Len(visited) |-> visited[x].Name]]

\* a chunk that starts one event late
ChunkOfSkipFirst(evs, k) ==
    Collected(TranslateFrom(evs, k * eventbridgeMaxBatchSize + 1,
                            (k + 1) * eventbridgeMaxBatchSize, <<>>))

\* a chunk whose upper limit is tested with <= instead of <
ChunkOfWide(evs, k) ==
    Collected(TranslateFrom(evs, k * eventbridgeMaxBatchSize,
                            (k + 1) * eventbridgeMaxBatchSize + 1, <<>>))

\* iteration k of the outer loop: j runs from k*16 while j < (k+1)*16
ChunkOf(evs, k) ==
    Collected(TranslateFrom(evs, k * eventbridgeMaxBatchSize,
                            (k + 1) * eventbridgeMaxBatchSize, <<>>))

\* time.Parse(layout, s): an error for a string that is no timestamp
TimeParse(s) ==
    IF s.wellFormed THEN [err |-> FALSE, t |-> s.t] ELSE [err |-> TRUE, t |-> 0]

Before(t, u) == t < u

\* a freshness check that lets a credential pass when its expiry cannot be parsed
isAkValidFailOpen(ak, n) ==
    LET p == TimeParse(ak.Expiration) IN
    IF p.err THEN TRUE ELSE ~Before(p.t, n)

isAkValid(ak, n) ==
    LET p == TimeParse(ak.Expiration) IN
    IF p.err THEN FALSE
    ELSE IF Before(p.t, n) THEN FALSE
    ELSE LET dropped == p.t - TenMinutes IN   \* t.Add's result is not kept
         IF Before(p.t, n) THEN FALSE ELSE TRUE

\* ------------------------------------------------------------------ inputs
\* the events of a batch of n that json.Marshal rejects: none, any single
\* one, or all of them
BadSets(n) == {{}} \cup {{x} : x \in 1..n} \cup {1..n}

\* the APIVersions "v1", "apps/v1" and "foo.bar"
V1 == <<"v", "1">>
AppsV1 == <<"a", "p", "p", "s", "/", "v", "1">>
FooBar == <<"f", "o", "o", ".", "b", "a", "r">>

\* every string of a letter, "." and "/" up to the bound, and the three above
Alphabet == {"a", ".", "/"}
APIVersions ==
    UNION {[1..k -> Alphabet] : k \in 0..MaxVersionLen} \cup {V1, AppsV1, FooBar}

MkBatch(n, bad) ==
    [j \in 1..n |-> [Name |-> j, marshalable |-> j \notin bad, APIVersion |-> V1]]

\* batches of every length with core-API events, and one-event batches of
\* every APIVersion
Batches ==
    UNION {{MkBatch(n, bad) : bad \in BadSets(n)} : n \in 0..MaxBatchLen}
    \cup {<<[Name |-> 1, marshalable |-> TRUE, APIVersion |-> v]>> :
              v \in APIVersions}

Expirations(n) == {Timestamp(n + d) : d \in Lifetimes} \cup {Unparsable}

\* opts["clusterId"] of the uri: no value, or two of which the first counts
ClusterIdOpts == {<<>>, <<"c-1", "c-2">>}
\* what utils.ParseRegion and utils.ParseOwnerAccountId return
RegionAnswers == {[err |-> TRUE, v |-> ""], [err |-> FALSE, v |-> "cn-hangzhou"]}
AccountAnswers == {[err |-> TRUE, v |-> ""], [err |-> FALSE, v |-> "1234"]}
Envs == [clusterId : ClusterIdOpts, region : RegionAnswers,
         accountId : AccountAnswers]

\* &eventBridgeSink{}: every field at its zero value
ZeroSink == [client |-> NilClient, akInfo |-> NilAk, clusterId |-> "",
             region |-> "", accountId |-> ""]

\* a constructor that does not look at the error of the account-id resolver
NewEventBridgeSinkAnyAccount(e) ==
    IF ~(Len(e.clusterId) >= 1) THEN [err |-> TRUE, ebSink |-> ZeroSink]
    ELSE IF e.region.err THEN [err |-> TRUE, ebSink |-> ZeroSink]
    ELSE [err |-> FALSE,
          ebSink |-> [ZeroSink EXCEPT !.clusterId = e.clusterId[1],
                                      !.region = e.region.v,
                                      !.accountId = e.accountId.v]]

\* NewEventBridgeSink, lines 40-65; on an error the sink returned is nil,
\* which ZeroSink stands for
NewEventBridgeSink(e) ==
    IF ~(Len(e.clusterId) >= 1) THEN [err |-> TRUE, ebSink |-> ZeroSink]
    ELSE IF e.region.err THEN [err |-> TRUE, ebSink |-> ZeroSink]
    ELSE IF e.accountId.err THEN [err |-> TRUE, ebSink |-> ZeroSink]
    ELSE [err |-> FALSE,
          ebSink |-> [ZeroSink EXCEPT !.clusterId = e.clusterId[1],
                                      !.region = e.region.v,
                                      !.accountId = e.accountId.v]]

\* the value of the variable sink: whether the constructor has run, whether
\* it returned an error, and the fields of the sink that never change
NoSink == [made |-> FALSE, err |-> FALSE, clusterId |-> "", region |-> "",
           accountId |-> ""]
SinkOf(r) == [made |-> TRUE, err |-> r.err, clusterId |-> r.ebSink.clusterId,
              region |-> r.ebSink.region, accountId |-> r.ebSink.accountId]

\* ------------------------------------------------------------------- state
\* the sink has been constructed without an error and no call was made yet
Init ==
    /\ env \in {e \in Envs : ~NewEventBridgeSink(e).err}
    /\ sink = SinkOf(NewEventBridgeSink(env))
    /\ client = NilClient
    /\ akInfo = NilAk
    /\ now = 0
    /\ callers = {1}
    /\ pc = [c \in Caller |-> "idle"]
    /\ batch = [c \in Caller |-> <<>>]
    /\ i = [c \in Caller |-> 0]
    /\ events = [c \in Caller |-> <<>>]
    /\ ebClient = [c \in Caller |-> NilClient]
    /\ newAk = [c \in Caller |-> NilAk]
    /\ newCl = [c \in Caller |-> NilClient]
    /\ putCalls = [c \in Caller |-> <<>>]
    /\ fetches = 0
    /\ built = 0
    /\ calls = 0

\* ----------------------------------------------------------------- actions
\* an entry that asks for the client before it looks at the batch
ExportEntryEager(b) == "getClient"

\* ExportEvents, lines 74-79: an empty batch returns at once
ExportEntry(b) == IF Len(b) = 0 THEN "returned" ELSE "for"

\* a loop that hands the error of putEvents on to its caller
AfterPutPropagate(err) == IF err THEN "aborted" ELSE "for"

\* a loop that stops at the first failed chunk and returns
AfterPutStop(err) == IF err THEN "returned" ELSE "for"

\* a loop that waits for ever once putEvents has failed
AfterPutHang(err) == IF err THEN "blocked" ELSE "for"

\* lines 140-143: the error of putEvents is logged and the loop goes on
AfterPut(err) == "for"

\* a loop that tries a failed chunk again
NextIndexRetry(k, err) == IF err THEN k ELSE k + 1

\* the loop index after putEvents returned (i++ of line 128)
NextIndex(k, err) == k + 1

\* the caller invokes ExportEvents(batch) on the sink it was given
ExportEvents(c) ==
    /\ pc[c] = "idle"
    /\ sink.made /\ ~sink.err
    /\ calls < MaxCalls
    /\ \E b \in Batches :
        /\ batch' = [batch EXCEPT ![c] = b]
        /\ pc' = [pc EXCEPT ![c] = ExportEntry(b)]
    /\ i' = [i EXCEPT ![c] = 0]
    /\ putCalls' = [putCalls EXCEPT ![c] = <<>>]
    /\ calls' = calls + 1
    /\ UNCHANGED <<client, akInfo, now, callers, events, ebClient, newAk, newCl,
                   fetches, built, env, sink>>

\* exportEventsInBatch, lines 127-138: the loop test, the translation of one
\* chunk and the call of putEvents with it
ForLoop(c) ==
    /\ pc[c] = "for"
    /\ IF i[c] < BatchSizeOf(Len(batch[c]))
       THEN LET ch == ChunkOf(batch[c], i[c]) IN
            /\ events' = [events EXCEPT ![c] = ch.out]
            /\ putCalls' = [putCalls EXCEPT ![c] =
                   Append(@, [k |-> i[c], seen |-> ch.seen, events |-> ch.out,
                              res |-> "pending", via |-> NilClient])]
            /\ pc' = [pc EXCEPT ![c] = "getClient"]
       ELSE /\ pc' = [pc EXCEPT ![c] = "returned"]
            /\ UNCHANGED <<events, putCalls>>
    /\ UNCHANGED <<client, akInfo, now, callers, batch, i, ebClient, newAk, newCl,
                   fetches, built, calls, env, sink>>

\* putEvents returns to exportEventsInBatch with or without an error
PutReturns(c, err, via) ==
    /\ putCalls' = [putCalls EXCEPT ![c] =
           [@ EXCEPT ![Len(@)] = [@ EXCEPT !.res = IF err THEN "err" ELSE "ok",
                                           !.via = via]]]
    /\ pc' = [pc EXCEPT ![c] = AfterPut(err)]
    /\ i' = [i EXCEPT ![c] = NextIndex(@, err)]

\* a test that hands out any cached client without the freshness check
UseCachedAny(cl, ak, n) == cl # NilClient

\* a test that never hands out the cached client
UseCachedNever(cl, ak, n) == FALSE

\* the test of line 147
UseCached(cl, ak, n) == cl # NilClient /\ isAkValid(ak, n)

\* a putEvents that goes on to the transport although getClient failed
GetClientFailedIgnored(c) ==
    /\ pc' = [pc EXCEPT ![c] = "PutEventsWithOptions"]
    /\ UNCHANGED <<putCalls, i>>

\* putEvents, lines 116-119: the error of getClient is returned at once
GetClientFailed(c) == PutReturns(c, TRUE, NilClient)

\* getClient, lines 146-151; isAkValid dereferences ebSink.akInfo
GetClient(c) ==
    /\ pc[c] = "getClient"
    /\ IF client # NilClient /\ akInfo = NilAk
       THEN /\ pc' = [pc EXCEPT ![c] = "panic"]
            /\ UNCHANGED ebClient
       ELSE IF UseCached(client, akInfo, now)
       THEN /\ ebClient' = [ebClient EXCEPT ![c] = client]
            /\ pc' = [pc EXCEPT ![c] = "PutEventsWithOptions"]
       ELSE /\ pc' = [pc EXCEPT ![c] = "ParseAKInfo"]
            /\ UNCHANGED ebClient
    /\ UNCHANGED <<client, akInfo, now, callers, batch, i, events, newAk, newCl,
                   putCalls, fetches, built, calls, env, sink>>

\* a fetch that stores the credential in the sink before the client is built
ParseAKInfoCaching(c) ==
    /\ pc[c] = "ParseAKInfo"
    /\ fetches' = fetches + 1
    /\ \/ /\ GetClientFailed(c)
          /\ UNCHANGED <<newAk, akInfo>>
       \/ /\ \E e \in Expirations(now) :
                /\ newAk' = [newAk EXCEPT ![c] =
                                [AccessKeyId |-> fetches + 1, Expiration |-> e]]
                /\ akInfo' = [AccessKeyId |-> fetches + 1, Expiration |-> e]
          /\ pc' = [pc EXCEPT ![c] = "NewClient"]
          /\ UNCHANGED <<putCalls, i>>
    /\ UNCHANGED <<client, now, callers, batch, events, ebClient, newCl,
                   built, calls, env, sink>>

\* newClient, lines 156-159: the credential provider answers
ParseAKInfo(c) ==
    /\ pc[c] = "ParseAKInfo"
    /\ fetches' = fetches + 1
    /\ \/ /\ GetClientFailed(c)
          /\ UNCHANGED newAk
       \/ /\ \E e \in Expirations(now) :
                newAk' = [newAk EXCEPT ![c] =
                             [AccessKeyId |-> fetches + 1, Expiration |-> e]]
          /\ pc' = [pc EXCEPT ![c] = "NewClient"]
          /\ UNCHANGED <<putCalls, i>>
    /\ UNCHANGED <<client, akInfo, now, callers, batch, events, ebClient, newCl,
                   built, calls, env, sink>>

\* a config filled from the cached credential instead of the fetched one
ConfigAkCached(c) == akInfo

\* newClient, lines 161-164: the config carries the fetched credential
ConfigAk(c) == newAk[c]

\* newClient, lines 161-170: eventbridge.NewClient(config)
NewClient(c) ==
    /\ pc[c] = "NewClient"
    /\ \/ /\ GetClientFailed(c)
          /\ UNCHANGED <<newCl, built>>
       \/ /\ built' = built + 1
          /\ newCl' = [newCl EXCEPT ![c] = [id |-> built + 1, ak |-> ConfigAk(c)]]
          /\ pc' = [pc EXCEPT ![c] = "setClient"]
          /\ UNCHANGED <<putCalls, i>>
    /\ UNCHANGED <<client, akInfo, now, callers, batch, events, ebClient, newAk,
                   fetches, calls, env, sink>>

\* newClient, line 172
SetClient(c) ==
    /\ pc[c] = "setClient"
    /\ client' = newCl[c]
    /\ pc' = [pc EXCEPT ![c] = "setAkInfo"]
    /\ UNCHANGED <<akInfo, now, callers, batch, i, events, ebClient, newAk, newCl,
                   putCalls, fetches, built, calls, env, sink>>

\* a newClient that returns the client without storing the credential
SetAkInfoSkipped(c) ==
    /\ pc[c] = "setAkInfo"
    /\ ebClient' = [ebClient EXCEPT ![c] = newCl[c]]
    /\ pc' = [pc EXCEPT ![c] = "PutEventsWithOptions"]
    /\ UNCHANGED <<client, akInfo, now, callers, batch, i, events, newAk, newCl,
                   putCalls, fetches, built, calls, env, sink>>

\* newClient, lines 173-175, and the return through getClient to putEvents
SetAkInfo(c) ==
    /\ pc[c] = "setAkInfo"
    /\ akInfo' = newAk[c]
    /\ ebClient' = [ebClient EXCEPT ![c] = newCl[c]]
    /\ pc' = [pc EXCEPT ![c] = "PutEventsWithOptions"]
    /\ UNCHANGED <<client, now, callers, batch, i, events, newAk, newCl,
                   putCalls, fetches, built, calls, env, sink>>

\* putEvents, lines 120-123: the transport accepts or rejects the chunk
PutEventsWithOptions(c) ==
    /\ pc[c] = "PutEventsWithOptions"
    /\ \E err \in BOOLEAN : PutReturns(c, err, ebClient[c])
    /\ UNCHANGED <<client, akInfo, now, callers, batch, events, ebClient, newAk,
                   newCl, fetches, built, calls, env, sink>>

\* ExportEvents has returned; the caller takes over again
Return(c) ==
    /\ pc[c] = "returned"
    /\ pc' = [pc EXCEPT ![c] = "idle"]
    /\ batch' = [batch EXCEPT ![c] = <<>>]
    /\ i' = [i EXCEPT ![c] = 0]
    /\ events' = [events EXCEPT ![c] = <<>>]
    /\ ebClient' = [ebClient EXCEPT ![c] = NilClient]
    /\ newAk' = [newAk EXCEPT ![c] = NilAk]
    /\ newCl' = [newCl EXCEPT ![c] = NilClient]
    /\ putCalls' = [putCalls EXCEPT ![c] = <<>>]
    /\ UNCHANGED <<client, akInfo, now, callers, fetches, built, calls, env, sink>>

\* the wall clock advances
Tick ==
    /\ now < MaxNow
    /\ now' = now + TickMinutes
    /\ UNCHANGED <<client, akInfo, callers, pc, batch, i, events, ebClient,
                   newAk, newCl, putCalls, fetches, built, calls, env, sink>>

Step(c) ==
    \/ ExportEvents(c)
    \/ ForLoop(c)
    \/ GetClient(c)
    \/ ParseAKInfo(c)
    \/ NewClient(c)
    \/ SetClient(c)
    \/ SetAkInfo(c)
    \/ PutEventsWithOptions(c)
    \/ Return(c)

Next == (\E c \in callers : Step(c)) \/ Tick

Spec == Init /\ [][Next]_vars

\* the steps of a call in progress: each of them is a return of the code of
\* the sink, of the credential provider or of the transport
Run(c) ==
    \/ ForLoop(c)
    \/ GetClient(c)
    \/ ParseAKInfo(c)
    \/ NewClient(c)
    \/ SetClient(c)
    \/ SetAkInfo(c)
    \/ PutEventsWithOptions(c)

\* the sink after its first export call has returned: the call was given an
\* empty batch, or one chunk that fetched a credential with 5 minutes to
\* live and built a client
InitLastCall ==
    /\ env \in {e \in Envs : ~NewEventBridgeSink(e).err}
    /\ sink = SinkOf(NewEventBridgeSink(env))
    /\ \/ client = NilClient /\ akInfo = NilAk /\ fetches = 0 /\ built = 0
       \/    /\ akInfo = [AccessKeyId |-> 1, Expiration |-> Timestamp(5)]
             /\ client = [id |-> 1, ak |-> akInfo]
             /\ fetches = 1
             /\ built = 1
    /\ now = 0
    /\ callers = {1}
    /\ pc = [c \in Caller |-> "idle"]
    /\ batch = [c \in Caller |-> <<>>]
    /\ i = [c \in Caller |-> 0]
    /\ events = [c \in Caller |-> <<>>]
    /\ ebClient = [c \in Caller |-> NilClient]
    /\ newAk = [c \in Caller |-> NilAk]
    /\ newCl = [c \in Caller |-> NilClient]
    /\ putCalls = [c \in Caller |-> <<>>]
    /\ calls = MaxCalls - 1

\* every call the sink makes returns: no step of a call is postponed for ever
FairSpec == InitLastCall /\ [][Next]_vars /\ WF_vars(\E c \in callers : Run(c))

\* the program before it asks for the sink
InitNoSink ==
    /\ env \in Envs
    /\ sink = NoSink
    /\ client = NilClient
    /\ akInfo = NilAk
    /\ now = 0
    /\ callers = {1}
    /\ pc = [c \in Caller |-> "idle"]
    /\ batch = [c \in Caller |-> <<>>]
    /\ i = [c \in Caller |-> 0]
    /\ events = [c \in Caller |-> <<>>]
    /\ ebClient = [c \in Caller |-> NilClient]
    /\ newAk = [c \in Caller |-> NilAk]
    /\ newCl = [c \in Caller |-> NilClient]
    /\ putCalls = [c \in Caller |-> <<>>]
    /\ fetches = 0
    /\ built = 0
    /\ calls = 0

\* the sink factory calls NewEventBridgeSink(uri) once
CreateSink ==
    /\ ~sink.made
    /\ LET r == NewEventBridgeSink(env) IN
        /\ sink' = SinkOf(r)
        /\ client' = r.ebSink.client
        /\ akInfo' = r.ebSink.akInfo
    /\ UNCHANGED <<now, callers, pc, batch, i, events, ebClient, newAk, newCl,
                   putCalls, fetches, built, calls, env>>

NextFromStart == CreateSink \/ Next

\* the sink from its construction on
SpecFromStart == InitNoSink /\ [][NextFromStart]_vars

\* ------------------------------------------------------------------ claims
Ceil16(n) == (n + 15) \div 16

Returned(c) == pc[c] = "returned"

\* the envelope a successful translation of the event named m yields
EnvelopeOf(m) == [data |-> m]

RECURSIVE Flatten(_)
Flatten(ss) == IF ss = <<>> THEN <<>> ELSE Head(ss) \o Flatten(Tail(ss))

\* the chunks handed to putEvents by caller c, in call order
\* the data of the envelopes of a chunk
DataOf(ces) == [x \in 1..Len(ces) |-> [data |-> ces[x].data]]

ChunksOf(c) == [m \in 1..Len(putCalls[c]) |-> DataOf(putCalls[c][m].events)]

\* the envelopes of the events of evs that can be translated, in batch order
RECURSIVE TranslatedOf(_)
TranslatedOf(evs) ==
    IF evs = <<>> THEN <<>>
    ELSE (IF Head(evs).marshalable THEN <<EnvelopeOf(Head(evs).Name)>> ELSE <<>>)
         \o TranslatedOf(Tail(evs))

\* C1: when ExportEvents returns, exactly ceil(N/16) putEvents calls were made
\* for the batch of N events, whichever events failed translation and whichever
\* dispatches failed; a chunk left empty by translation failures counts too.
C1_DispatchCount ==
    \A c \in callers :
        Returned(c) => Len(putCalls[c]) = Ceil16(Len(batch[c]))

\* a 17-event batch whose last event failed translation: two calls were made,
\* the second with an empty chunk, and the first dispatch failed
C1_Witness ==
    \E c \in callers :
        /\ Returned(c)
        /\ Len(batch[c]) = 17
        /\ Len(putCalls[c]) = 2
        /\ putCalls[c][2].events = <<>>
        /\ putCalls[c][1].res = "err"

\* C2: when ExportEvents returns, the chunks handed to putEvents, concatenated
\* in call order, are exactly the envelopes of the translatable events of the
\* batch in batch order, and every envelope sits in the chunk of its batch index.
C2_OrderPreserved ==
    \A c \in callers :
        Returned(c) =>
            /\ Flatten(ChunksOf(c)) = TranslatedOf(batch[c])
            /\ \A m \in 1..Len(putCalls[c]) :
                 \A e \in 1..Len(putCalls[c][m].events) :
                    (putCalls[c][m].events[e].data - 1) \div 16 = m - 1

\* a 17-event batch with one untranslatable event in the first chunk
C2_Witness ==
    \E c \in callers :
        /\ Returned(c)
        /\ Len(batch[c]) = 17
        /\ \E j \in 1..16 : ~batch[c][j].marshalable
        /\ batch[c][17].marshalable
        /\ Len(Flatten(ChunksOf(c))) = 16

\* C3: every chunk handed to putEvents holds at most 16 envelopes and covers
\* consecutive source events: 16 of them for every chunk but the last, and the
\* remaining N - 16*(ceil(N/16)-1) for the last.
C3_ChunkSizes ==
    \A c \in callers :
        /\ \A m \in 1..Len(putCalls[c]) :
            LET p == putCalls[c][m]
                n == Len(batch[c])
            IN  /\ Len(p.events) <= 16
                /\ Len(p.seen) = IF m < Ceil16(n) THEN 16 ELSE n - 16 * (Ceil16(n) - 1)
                /\ \A x \in 1..Len(p.seen) : p.seen[x] = 16 * (m - 1) + x
        /\ Returned(c) /\ Len(batch[c]) = 16 => Len(putCalls[c]) = 1
        /\ Returned(c) /\ Len(batch[c]) = 17 => Len(putCalls[c]) = 2

\* a 17-event batch exported as a chunk of 16 and a chunk of 1
C3_Witness ==
    \E c \in callers :
        /\ Returned(c)
        /\ Len(batch[c]) = 17
        /\ Len(putCalls[c]) = 2
        /\ Len(putCalls[c][1].seen) = 16
        /\ Len(putCalls[c][2].seen) = 1

\* C4: ExportEvents on an empty batch returns at once: the step makes no
\* putEvents call and no credential fetch, builds no client and leaves the
\* cached client and the cached credential as they were.
C4_EmptyBatchNoOp ==
    [][\A c \in callers :
          (pc[c] = "idle" /\ pc'[c] # "idle" /\ batch'[c] = <<>>) =>
              /\ pc'[c] = "returned"
              /\ putCalls'[c] = <<>>
              /\ fetches' = fetches
              /\ built' = built
              /\ client' = client
              /\ akInfo' = akInfo]_vars

\* an empty batch was exported on a sink that holds a cached client
C4_Witness ==
    \E c \in callers :
        /\ Returned(c)
        /\ batch[c] = <<>>
        /\ putCalls[c] = <<>>
        /\ client # NilClient
        /\ akInfo # NilAk

\* C5: the chunk handed to putEvents holds the envelopes of exactly those
\* events it covers whose translation succeeded, in order; a failed
\* translation drops that one event only.
C5_OnlyFailedDropped ==
    \A c \in callers :
        \A m \in 1..Len(putCalls[c]) :
            LET lo == 16 * (m - 1) + 1
                hi == IF 16 * m < Len(batch[c]) THEN 16 * m ELSE Len(batch[c])
            IN  DataOf(putCalls[c][m].events) = TranslatedOf(SubSeq(batch[c], lo, hi))

\* a 3-event batch with one failed translation was dispatched as 2 envelopes
C5_Witness ==
    \E c \in callers :
        /\ Returned(c)
        /\ Len(batch[c]) = 3
        /\ ~batch[c][2].marshalable
        /\ Len(putCalls[c]) = 1
        /\ DataOf(putCalls[c][1].events) = <<EnvelopeOf(1), EnvelopeOf(3)>>
        /\ putCalls[c][1].res = "ok"

\* C6: within one export call the chunks are handed to putEvents once each
\* and in order, chunk k+1 only after the attempt of chunk k has finished, and
\* a failed attempt does not end the call: at return all ceil(N/16) chunks
\* have been handed over.
C6_NoRetryNoAbort ==
    \A c \in callers :
        /\ \A m \in 1..Len(putCalls[c]) :
            /\ putCalls[c][m].k = m - 1
            /\ m < Len(putCalls[c]) => putCalls[c][m].res # "pending"
        /\ Returned(c) => Len(putCalls[c]) = Ceil16(Len(batch[c]))
        /\ pc[c] = "for" => i[c] = Len(putCalls[c])

\* the transport rejected the first chunk and the second was dispatched after
C6_Witness ==
    \E c \in callers :
        /\ Returned(c)
        /\ Len(putCalls[c]) = 2
        /\ putCalls[c][1].res = "err"
        /\ putCalls[c][1].via # NilClient
        /\ putCalls[c][2].res = "ok"

\* the positions of a call that runs or has returned normally
NormalPositions ==
    {"idle", "for", "getClient", "ParseAKInfo", "NewClient", "setClient",
     "setAkInfo", "PutEventsWithOptions", "returned"}

\* C7: ExportEvents never ends in an error: whatever fails, a caller is at a
\* normal position of the call, never in a panic and never handed an error.
C7_NeverFails ==
    \A c \in callers : pc[c] \in NormalPositions

\* a call returned after a failed translation, a failed getClient and a
\* failed transport dispatch
C7_Witness ==
    \E c \in callers :
        /\ Returned(c)
        /\ \E j \in 1..Len(batch[c]) : ~batch[c][j].marshalable
        /\ Len(putCalls[c]) = 2
        /\ putCalls[c][1].res = "err" /\ putCalls[c][1].via = NilClient
        /\ putCalls[c][2].res = "err" /\ putCalls[c][2].via # NilClient

\* C8: when ExportEvents returns, the attempt of every one of the ceil(N/16)
\* chunks has finished: none is pending and none was left out.
C8_Blocking ==
    \A c \in callers :
        Returned(c) =>
            /\ Len(putCalls[c]) = Ceil16(Len(batch[c]))
            /\ \A m \in 1..Len(putCalls[c]) : putCalls[c][m].res \in {"ok", "err"}
            /\ \A k \in 0..(Ceil16(Len(batch[c])) - 1) :
                 \E m \in 1..Len(putCalls[c]) : putCalls[c][m].k = k

\* a two-chunk call returned with one chunk delivered and one failed
C8_Witness ==
    \E c \in callers :
        /\ Returned(c)
        /\ Len(batch[c]) = 17
        /\ putCalls[c][1].res = "ok"
        /\ putCalls[c][2].res = "err"

\* C9: provided every fetch, construction and dispatch returns, a call of
\* ExportEvents that has started eventually returns.
C9_Terminates ==
    \A c \in Caller :
        (pc[c] \notin {"idle", "returned"}) ~> (pc[c] = "returned")

\* a call returned although every one of its chunks failed
C9_Witness ==
    \E c \in callers :
        /\ Returned(c)
        /\ Len(putCalls[c]) = 2
        /\ \A m \in 1..2 : putCalls[c][m].res = "err"

\* C10: where getClient runs the freshness check, the credential is judged
\* valid iff now < expiry and now < expiry - 10 minutes.
C10_FreshnessPolicy ==
    \A c \in callers :
        (pc[c] = "getClient" /\ client # NilClient /\ akInfo # NilAk
            /\ akInfo.Expiration.wellFormed) =>
            (isAkValid(akInfo, now) <=>
                (now < akInfo.Expiration.t /\ now < akInfo.Expiration.t - 10))

\* C11: the freshness check fails closed: when getClient finds a cached client
\* whose credential has an Expiration that cannot be parsed, it does not hand
\* out the cached client and does not fail; it goes to the credential provider.
C11_FailsClosed ==
    [][\A c \in callers :
          (/\ pc[c] = "getClient" /\ pc'[c] # "getClient"
           /\ client # NilClient /\ akInfo # NilAk
           /\ ~akInfo.Expiration.wellFormed) =>
              /\ ~isAkValid(akInfo, now)
              /\ pc'[c] = "ParseAKInfo"
              /\ ebClient'[c] = ebClient[c]]_vars

\* a caller is at the credential provider although a client is cached: the
\* cached credential has an unparsable Expiration
C11_Witness ==
    \E c \in callers :
        /\ pc[c] = "ParseAKInfo"
        /\ client # NilClient
        /\ akInfo # NilAk
        /\ ~akInfo.Expiration.wellFormed

\* C12: whenever getClient returns a client to putEvents (cached or newly
\* built), the credential that client is bound to has a parsable expiry that
\* lies more than 10 minutes after the time of the return.
C12_DispatchMargin ==
    [][\A c \in callers :
          (pc[c] # "PutEventsWithOptions" /\ pc'[c] = "PutEventsWithOptions") =>
              /\ ebClient'[c] # NilClient
              /\ ebClient'[c].ak.Expiration.wellFormed
              /\ now' < ebClient'[c].ak.Expiration.t - 10]_vars

\* C13: getClient with a cached client whose credential passes the freshness
\* check returns that client in one step, with no credential fetch, no client
\* construction and the cache unchanged; in every other case it does not
\* return the cached client but calls the credential provider, and a
\* successful fetch is followed by the construction of a new client.
C13_CachedOrRefresh ==
    [][\A c \in callers :
          /\ (pc[c] = "getClient" /\ pc'[c] # "getClient") =>
                IF client # NilClient /\ akInfo # NilAk /\ isAkValid(akInfo, now)
                THEN /\ pc'[c] = "PutEventsWithOptions"
                     /\ ebClient'[c] = client
                     /\ fetches' = fetches /\ built' = built
                     /\ client' = client /\ akInfo' = akInfo
                ELSE /\ pc'[c] = "ParseAKInfo"
                     /\ client' = client /\ akInfo' = akInfo
          /\ (pc[c] = "ParseAKInfo" /\ pc'[c] # "ParseAKInfo") =>
                /\ fetches' = fetches + 1
                /\ pc'[c] \in {"NewClient", "for"}
          /\ (pc[c] = "NewClient" /\ pc'[c] = "setClient") =>
                /\ built' = built + 1
                /\ newCl'[c].ak = newAk[c]]_vars

\* the second chunk of a call went through the client cached by the first,
\* with one fetch and one construction in all
C13_Witness ==
    \E c \in callers :
        /\ pc[c] = "PutEventsWithOptions"
        /\ i[c] = 1
        /\ ebClient[c] = client
        /\ putCalls[c][1].via = client
        /\ fetches = 1
        /\ built = 1

\* the last putEvents call of caller c ended with an error of getClient
LastGetClientFailed(c) ==
    /\ Len(putCalls[c]) > 0
    /\ putCalls[c][Len(putCalls[c])].res = "err"
    /\ putCalls[c][Len(putCalls[c])].via = NilClient

\* C14: when the credential fetch or the client construction fails for chunk
\* k, putEvents returns the error without a transport dispatch for chunk k,
\* the loop goes on with chunk k+1 (or returns after the last chunk), and the
\* getClient call of chunk k+1 goes to the credential provider again.
C14_GetClientFailure ==
    [][\A c \in callers :
          /\ (pc[c] \in {"ParseAKInfo", "NewClient"}
              /\ pc'[c] \notin {"ParseAKInfo", "NewClient", "setClient"}) =>
                /\ pc'[c] = "for"
                /\ i'[c] = i[c] + 1
                /\ Len(putCalls'[c]) = Len(putCalls[c])
                /\ putCalls'[c][Len(putCalls[c])].k = i[c]
                /\ LastGetClientFailed(c)'
          /\ (pc[c] = "for" /\ LastGetClientFailed(c) /\ pc'[c] # "for") =>
                IF i[c] < Ceil16(Len(batch[c]))
                THEN /\ pc'[c] = "getClient"
                     /\ putCalls'[c][Len(putCalls'[c])].k = i[c]
                ELSE pc'[c] = "returned"
          /\ (pc[c] = "getClient" /\ Len(putCalls[c]) > 1
              /\ putCalls[c][Len(putCalls[c]) - 1].res = "err"
              /\ putCalls[c][Len(putCalls[c]) - 1].via = NilClient
              /\ pc'[c] # "getClient") =>
                pc'[c] = "ParseAKInfo"]_vars

\* the fetch failed for the first chunk, and the second chunk, after a new
\* fetch, was dispatched
C14_Witness ==
    \E c \in callers :
        /\ Returned(c)
        /\ Len(putCalls[c]) = 2
        /\ putCalls[c][1].res = "err" /\ putCalls[c][1].via = NilClient
        /\ putCalls[c][2].res = "ok" /\ putCalls[c][2].via # NilClient
        /\ fetches = 2
        /\ calls = 1

\* C15 (as claimed): in every reachable state the cached client is bound to
\* the cached credential (both nil, or the client built from that credential).
C15_AtomicReplacement == client.ak = akInfo

\* C15 (amended): the cached client is bound to the cached credential in every
\* state in which no caller stands between the two assignments of newClient
\* (lines 172 and 173); with a single caller no getClient runs in between.
C15_BoundOutsideSwap ==
    (\A c \in callers : pc[c] # "setAkInfo") => client.ak = akInfo

\* a refresh has replaced an earlier client and credential
C15_Witness ==
    \E c \in callers :
        /\ pc[c] = "PutEventsWithOptions"
        /\ built = 2
        /\ client.id = 2
        /\ akInfo.AccessKeyId > 1
        /\ ebClient[c] = client

\* C18: a failed refresh changes nothing: from the call of the credential
\* provider up to a failure of the fetch or of the client construction no step
\* changes the cached client or the cached credential.
C18_FailedRefreshKeepsCache ==
    [][(\E c \in callers : pc[c] \in {"ParseAKInfo", "NewClient"}) =>
          /\ client' = client
          /\ akInfo' = akInfo]_vars

\* a refresh failed at the client construction while a stale pair was cached,
\* and the stale pair is still cached
C18_Witness ==
    \E c \in callers :
        /\ pc[c] = "for"
        /\ LastGetClientFailed(c)
        /\ fetches > built
        /\ client # NilClient
        /\ client.ak = akInfo
        /\ ~isAkValid(akInfo, now)

\* C19: with a single caller the cached client is present iff the cached
\* credential is present, except between the two assignments of newClient; so
\* the freshness check of getClient never reads a missing credential.
C19_ClientIffCredential ==
    \A c \in callers :
        /\ pc[c] # "setAkInfo" => (client = NilClient <=> akInfo = NilAk)
        /\ pc[c] = "getClient" /\ client # NilClient => akInfo # NilAk
        /\ pc[c] # "panic"

\* a second export call runs the freshness check on the credential cached by
\* the first, after failures of fetch, construction and dispatch
C19_Witness ==
    \E c \in callers :
        /\ calls = 2
        /\ pc[c] = "getClient"
        /\ client # NilClient
        /\ akInfo # NilAk
        /\ fetches > built
        /\ built > 0

\* C20: in the first export call on a sink with an empty cache, when the first
\* fetch and construction succeed and the fetched credential is still fresh,
\* one fetch and one construction have happened, every chunk dispatched so far
\* went through that one client, and at the return all ceil(N/16) chunks did.
C20_OneClientPerCall ==
    \A c \in callers :
        (/\ calls = 1
         /\ Len(putCalls[c]) >= 1
         /\ putCalls[c][1].via # NilClient
         /\ isAkValid(putCalls[c][1].via.ak, now))
        => /\ fetches = 1
           /\ built = 1
           /\ \A k \in 1..Len(putCalls[c]) :
                  putCalls[c][k].res # "pending" =>
                      putCalls[c][k].via = putCalls[c][1].via
           /\ Returned(c) =>
                  /\ Len(putCalls[c]) = Ceil16(Len(batch[c]))
                  /\ \A k \in 1..Len(putCalls[c]) :
                         putCalls[c][k].res # "pending"

\* a first call of two chunks returned with both chunks dispatched through the
\* client built for the first chunk, after a single fetch
C20_Witness ==
    \E c \in callers :
        /\ Returned(c)
        /\ calls = 1
        /\ Len(putCalls[c]) = 2
        /\ putCalls[c][1].via # NilClient
        /\ putCalls[c][2].via = putCalls[c][1].via
        /\ putCalls[c][1].via = client
        /\ isAkValid(akInfo, now)
        /\ fetches = 1
        /\ built = 1

\* C17: NewEventBridgeSink fails and yields no sink whenever the cluster id is
\* missing from the uri, the region resolver fails or the account-id resolver
\* fails; it returns a sink only with all three values, and that sink has no
\* cached client and no cached credential before its first export call.
C17_ConstructionFailsClosed ==
    sink.made =>
        /\ sink.err <=> \/ Len(env.clusterId) = 0
                        \/ env.region.err
                        \/ env.accountId.err
        /\ sink.err => /\ calls = 0
                       /\ \A c \in callers : pc[c] = "idle"
                       /\ sink.clusterId = "" /\ sink.region = ""
                       /\ sink.accountId = ""
        /\ ~sink.err => /\ sink.clusterId = env.clusterId[1]
                        /\ sink.region = env.region.v
                        /\ sink.accountId = env.accountId.v
                        /\ calls = 0 => client = NilClient /\ akInfo = NilAk

\* the cluster id and the region were obtained, the account-id resolver
\* failed, and the constructor returned its error
C17_Witness ==
    /\ sink.made
    /\ sink.err
    /\ Len(env.clusterId) >= 1
    /\ ~env.region.err
    /\ env.accountId.err

\* C16: when a chunk is handed to putEvents, the API-version segment of the
\* subject of each of its envelopes is the APIVersion of its event with
\* "/versionUnknown" appended iff the APIVersion has a "." and no "/", and
\* the APIVersion unchanged otherwise: "v1" and "apps/v1" stay, "foo.bar"
\* gets the suffix.
C16_VersionSegment ==
    \A c \in callers :
        pc[c] = "getClient" =>
            \A x \in 1..Len(events[c]) :
                LET ce == events[c][x]
                    v == batch[c][ce.data].APIVersion
                    dot == \E k \in 1..Len(v) : v[k] = "."
                    slash == \E k \in 1..Len(v) : v[k] = "/"
                    suffixed == v \o <<"/", "v", "e", "r", "s", "i", "o", "n",
                                      "U", "n", "k", "n", "o", "w", "n">>
                IN  /\ (dot /\ ~slash) => ce.subject.version = suffixed
                    /\ ~(dot /\ ~slash) => ce.subject.version = v
                    /\ v = V1 => ce.subject.version = <<"v", "1">>
                    /\ v = AppsV1 => ce.subject.version = AppsV1
                    /\ v = FooBar =>
                           ce.subject.version =
                               <<"f", "o", "o", ".", "b", "a", "r", "/",
                                 "v", "e", "r", "s", "i", "o", "n",
                                 "U", "n", "k", "n", "o", "w", "n">>

\* an event of APIVersion "foo.bar" is handed to putEvents with the suffix
\* in its subject
C16_Witness ==
    \E c \in callers :
        /\ pc[c] = "getClient"
        /\ Len(events[c]) = 1
        /\ batch[c][1].APIVersion = FooBar
        /\ events[c][1].subject.version = FooBar \o VersionUnknown

====
